---- MODULE Spec2Model ----
(***************************************************************************)
(* Model of the usage-accounting and admission-control core of            *)
(* openai_billing: models/billing_models.py (UsageStats, BillingConfig),   *)
(* core/billing_monitor.py (BillingMonitor), core/decorators.py            *)
(* (monitor_openai_call) and config/manager.py (ConfigManager).            *)
(*                                                                         *)
(* Units.  Token counts are integers as in the code.  Prices are integers  *)
(* in an arbitrary price unit per 1000 tokens; every cost and every cost   *)
(* limit is an integer counted in thousandths of that price unit, so that  *)
(* the code's (tokens / 1000) * price is exactly tokens * price.  Binary   *)
(* floating-point rounding is not modelled.  warning_threshold is the      *)
(* rational WarnNum / WarnDen.                                             *)
(*                                                                         *)
(* Optional[...] fields are sequences: << >> is None, <<v>> is the value v.*)
(* A datetime is a record [year, month, day]; the code compares only       *)
(* dates, years and months, never the time of day.                         *)
(***************************************************************************)
EXTENDS Integers, Sequences, FiniteSets, TLC

VARIABLES
    stats,        \* BillingConfig.usage_stats (the ledger)
    thresholds,   \* BillingConfig.thresholds
    models,       \* BillingConfig.models: model name -> prices
    enabled,      \* BillingConfig.enabled
    auto_save,    \* BillingConfig.auto_save
    stats_file,   \* contents of ConfigManager.stats_file
    now,          \* the value datetime.now() returns
    callbacks,    \* BillingMonitor.on_threshold_warning / on_threshold_exceeded / on_usage_update
    threads,      \* the threads inside track_usage: their position and locals
    contexts,     \* the temporary_monitoring / disable_monitoring blocks that are open
    last          \* what the last operation was given and what its caller observed

vars == <<stats, thresholds, models, enabled, auto_save, stats_file, now,
          callbacks, threads, contexts, last>>

----------------------------------------------------------------------------
(* Bounds of the model *)

MaxRequests == 2      \* commits are made while total_requests < MaxRequests
MaxInput == 1         \* input_tokens of one request range over 0..MaxInput
CostLimit == 5        \* the non-zero cost limit a configuration may carry
TokenLimit == 3       \* the non-zero token limit a configuration may carry

(* warning_threshold = 0.8 *)
WarnNum == 4
WarnDen == 5

None == << >>
Some(v) == <<v>>
\* Python truthiness of an Optional number: None and 0 are both falsy
Truthy(o) == o # << >> /\ o[1] # 0

ModelNames == {"m", "x"}          \* "m" is in the catalog, "x" is not
InputUnits == 0..MaxInput
OutputUnits == {0, 1}
ResetTypes == {"all", "daily", "monthly"}

----------------------------------------------------------------------------
(* datetime *)

DateTime(y, m, d) == [year |-> y, month |-> m, day |-> d]

\* the days on which the program runs: a day, the next day, a day of the
\* next month, a day of the next year
Calendar ==
    <<DateTime(0, 1, 1), DateTime(0, 1, 2), DateTime(0, 2, 1), DateTime(1, 1, 1)>>

\* a.date() > b.date()
DateAfter(a, b) ==
    \/ a.year > b.year
    \/ a.year = b.year /\ a.month > b.month
    \/ a.year = b.year /\ a.month = b.month /\ a.day > b.day

----------------------------------------------------------------------------
(* models/billing_models.py *)

\* UsageStats() as constructed at time t
NewUsageStats(t) ==
    [ total_input_tokens    |-> 0, total_output_tokens   |-> 0, total_cost   |-> 0,
      daily_input_tokens    |-> 0, daily_output_tokens   |-> 0, daily_cost   |-> 0,
      monthly_input_tokens  |-> 0, monthly_output_tokens |-> 0, monthly_cost |-> 0,
      last_reset_date       |-> t, last_daily_reset      |-> t,
      last_monthly_reset    |-> t,
      request_count         |-> 0, total_requests        |-> 0,
      daily_requests        |-> 0, monthly_requests      |-> 0 ]

reset_daily_stats(s, t) ==
    [s EXCEPT !.daily_input_tokens = 0,
              !.daily_output_tokens = 0,
              !.daily_cost = 0,
              !.daily_requests = 0,
              !.last_daily_reset = t]

\* a reset_monthly_stats that stamps the daily timestamp as well
reset_monthly_stats_stamps_daily(s, t) ==
    [s EXCEPT !.monthly_input_tokens = 0,
              !.monthly_output_tokens = 0,
              !.monthly_cost = 0,
              !.monthly_requests = 0,
              !.last_daily_reset = t,
              !.last_monthly_reset = t]

reset_monthly_stats(s, t) ==
    [s EXCEPT !.monthly_input_tokens = 0,
              !.monthly_output_tokens = 0,
              !.monthly_cost = 0,
              !.monthly_requests = 0,
              !.last_monthly_reset = t]

\* a reset_all_stats that forgets the daily counters
reset_all_stats_keeps_daily(s, t) ==
    [s EXCEPT !.total_input_tokens = 0,
              !.total_output_tokens = 0,
              !.total_cost = 0,
              !.monthly_input_tokens = 0,
              !.monthly_output_tokens = 0,
              !.monthly_cost = 0,
              !.request_count = 0,
              !.total_requests = 0,
              !.monthly_requests = 0,
              !.last_reset_date = t,
              !.last_daily_reset = t,
              !.last_monthly_reset = t]

reset_all_stats(s, t) ==
    [s EXCEPT !.total_input_tokens = 0,
              !.total_output_tokens = 0,
              !.total_cost = 0,
              !.daily_input_tokens = 0,
              !.daily_output_tokens = 0,
              !.daily_cost = 0,
              !.monthly_input_tokens = 0,
              !.monthly_output_tokens = 0,
              !.monthly_cost = 0,
              !.request_count = 0,
              !.total_requests = 0,
              !.daily_requests = 0,
              !.monthly_requests = 0,
              !.last_reset_date = t,
              !.last_daily_reset = t,
              !.last_monthly_reset = t]

\* BillingConfig.calculate_cost, in thousandths of the price unit
calculate_cost(mods, model_name, input_tokens, output_tokens) ==
    IF model_name \notin DOMAIN mods THEN 0
    ELSE input_tokens * mods[model_name].input_token_price
         + output_tokens * mods[model_name].output_token_price

\* an update_usage that forgets to add the cost to the monthly total
update_usage_skips_monthly_cost(s, mods, model_name, input_tokens, output_tokens) ==
    LET cost == calculate_cost(mods, model_name, input_tokens, output_tokens) IN
    [s EXCEPT !.total_input_tokens = @ + input_tokens,
              !.total_output_tokens = @ + output_tokens,
              !.total_cost = @ + cost,
              !.request_count = @ + 1,
              !.total_requests = @ + 1,
              !.daily_input_tokens = @ + input_tokens,
              !.daily_output_tokens = @ + output_tokens,
              !.daily_cost = @ + cost,
              !.daily_requests = @ + 1,
              !.monthly_input_tokens = @ + input_tokens,
              !.monthly_output_tokens = @ + output_tokens,
              !.monthly_requests = @ + 1]

update_usage(s, mods, model_name, input_tokens, output_tokens) ==
    LET cost == calculate_cost(mods, model_name, input_tokens, output_tokens) IN
    [s EXCEPT !.total_input_tokens = @ + input_tokens,
              !.total_output_tokens = @ + output_tokens,
              !.total_cost = @ + cost,
              !.request_count = @ + 1,
              !.total_requests = @ + 1,
              !.daily_input_tokens = @ + input_tokens,
              !.daily_output_tokens = @ + output_tokens,
              !.daily_cost = @ + cost,
              !.daily_requests = @ + 1,
              !.monthly_input_tokens = @ + input_tokens,
              !.monthly_output_tokens = @ + output_tokens,
              !.monthly_cost = @ + cost,
              !.monthly_requests = @ + 1]

\* a daily roll check that compares the day of the month only
check_daily_reset_compares_day(s, t) ==
    IF t.day > s.last_daily_reset.day THEN reset_daily_stats(s, t) ELSE s

\* a daily roll check that catches up one day per call
check_daily_reset_steps_one_day(s, t) ==
    IF DateAfter(t, s.last_daily_reset)
    THEN reset_daily_stats(s, [s.last_daily_reset EXCEPT !.day = @ + 1])
    ELSE s

check_daily_reset(s, t) ==
    IF DateAfter(t, s.last_daily_reset) THEN reset_daily_stats(s, t) ELSE s

check_monthly_reset(s, t) ==
    IF t.year > s.last_monthly_reset.year \/ t.month > s.last_monthly_reset.month
    THEN reset_monthly_stats(s, t)
    ELSE s

----------------------------------------------------------------------------
(* Python float arithmetic, for the pricing function alone.                *)
(* A natural number is the sequence of its binary digits, lowest first,    *)
(* without leading zeros (<< >> is 0).  A float is [m, e], the value        *)
(* m * 2^e with a mantissa m of exactly MantissaBits digits, or FloatZero. *)
(* Every operation rounds its exact result to the nearest float, ties to   *)
(* even, as IEEE-754 binary64 does; the values priced here are far from    *)
(* the subnormal and the overflow range.                                   *)

MantissaBits == 53

\* a * 2^k
NatShl(a, k) == IF a = << >> \/ k = 0 THEN a ELSE [i \in 1..k |-> 0] \o a

StripZeros(n) ==
    LET ones == {i \in 1..Len(n) : n[i] = 1}
    IN  IF ones = {} THEN << >>
        ELSE SubSeq(n, 1, CHOOSE i \in ones : \A j \in ones : j <= i)

\* Sums and products are computed on groups of twelve digits (limbs), the
\* schoolbook way: column sums first, then one pass of carries.
PowersOfTwo == <<1, 2, 4, 8, 16, 32, 64, 128, 256, 512, 1024, 2048>>

RECURSIVE SumSeq(_)
SumSeq(s) == IF Len(s) = 0 THEN 0 ELSE Head(s) + SumSeq(Tail(s))

LimbsOf(n) ==
    [j \in 1..((Len(n) + 11) \div 12) |->
        SumSeq([i \in 1..12 |->
            IF 12 * (j - 1) + i <= Len(n) THEN n[12 * (j - 1) + i] * PowersOfTwo[i] ELSE 0])]

NatOfLimbs(l) ==
    StripZeros([i \in 1..(12 * Len(l)) |->
        (l[((i - 1) \div 12) + 1] \div PowersOfTwo[((i - 1) % 12) + 1]) % 2])

\* an int below 2^31
NatOfInt(n) == NatOfLimbs(<<n % 4096, (n \div 4096) % 4096, n \div 16777216>>)

RECURSIVE Carried(_, _)
Carried(columns, c) ==
    IF Len(columns) = 0
    THEN IF c = 0 THEN << >> ELSE <<c % 4096>> \o Carried(columns, c \div 4096)
    ELSE <<(Head(columns) + c) % 4096>>
            \o Carried(Tail(columns), (Head(columns) + c) \div 4096)

NatAdd(a, b) ==
    LET x == LimbsOf(a)
        y == LimbsOf(b)
        len == IF Len(x) < Len(y) THEN Len(y) ELSE Len(x)
    IN  NatOfLimbs(Carried([k \in 1..len |->
            (IF k <= Len(x) THEN x[k] ELSE 0) + (IF k <= Len(y) THEN y[k] ELSE 0)], 0))

NatMul(a, b) ==
    LET x == LimbsOf(a)
        y == LimbsOf(b)
    IN  IF a = << >> \/ b = << >> THEN << >>
        ELSE NatOfLimbs(Carried([k \in 1..(Len(x) + Len(y) - 1) |->
                SumSeq([i \in 1..Len(x) |->
                    IF k - i + 1 \in 1..Len(y) THEN x[i] * y[k - i + 1] ELSE 0])], 0))

NatLeq(a, b) ==
    IF Len(a) # Len(b) THEN Len(a) < Len(b)
    ELSE \/ a = b
         \/ \E i \in 1..Len(a) :
                /\ a[i] < b[i]
                /\ \A j \in (i + 1)..Len(a) : a[j] = b[j]

FloatZero == [m |-> << >>, e |-> 0]

\* the float nearest to n * 2^e (ties to even)
RoundToFloat(n, e) ==
    IF n = << >> THEN FloatZero
    ELSE IF Len(n) <= MantissaBits
    THEN [m |-> NatShl(n, MantissaBits - Len(n)), e |-> e - (MantissaBits - Len(n))]
    ELSE LET drop == Len(n) - MantissaBits
             kept == SubSeq(n, drop + 1, Len(n))
             sticky == \E i \in 1..(drop - 1) : n[i] = 1
             up == n[drop] = 1 /\ (sticky \/ kept[1] = 1)
             m == IF up THEN NatAdd(kept, <<1>>) ELSE kept
         IN  IF Len(m) > MantissaBits
             THEN [m |-> SubSeq(m, 2, Len(m)), e |-> e + drop + 1]
             ELSE [m |-> m, e |-> e + drop]

\* the first k limbs of r / den after the point (r < den), lowest first, and
\* the remainder left
RECURSIVE FractionLimbs(_, _, _)
FractionLimbs(r, den, k) ==
    IF k = 0 THEN [limbs |-> << >>, rem |-> r]
    ELSE LET rest == FractionLimbs((r * 4096) % den, den, k - 1)
         IN  [limbs |-> rest.limbs \o <<(r * 4096) \div den>>, rem |-> rest.rem]

\* num / den for ints (true division), and the float literal num/den: the
\* quotient to 84 binary places with a digit that tells whether more follow
FloatOfRatio(num, den) ==
    LET f == FractionLimbs(num % den, den, 7)
        places == [i \in 1..84 |->
                     (f.limbs[((i - 1) \div 12) + 1] \div PowersOfTwo[((i - 1) % 12) + 1]) % 2]
        n == <<IF f.rem = 0 THEN 0 ELSE 1>> \o places \o NatOfInt(num \div den)
    IN  RoundToFloat(StripZeros(n), -85)

\* x * y
FloatMul(x, y) ==
    IF x = FloatZero \/ y = FloatZero THEN FloatZero
    ELSE RoundToFloat(NatMul(x.m, y.m), x.e + y.e)

\* x + y
FloatAdd(x, y) ==
    IF x = FloatZero THEN y
    ELSE IF y = FloatZero THEN x
    ELSE LET e == IF x.e < y.e THEN x.e ELSE y.e
         IN  RoundToFloat(NatAdd(NatShl(x.m, x.e - e), NatShl(y.m, y.e - e)), e)

\* x <= y
FloatLeq(x, y) ==
    IF x = FloatZero THEN TRUE
    ELSE IF y = FloatZero THEN FALSE
    ELSE IF x.e # y.e THEN x.e < y.e
    ELSE NatLeq(x.m, y.m)

\* BillingConfig.calculate_cost in the arithmetic of the code: prices are
\* floats, input_tokens / 1000 is a true division, the products and the sum
\* are float operations
calculate_cost_float(mods, model_name, input_tokens, output_tokens) ==
    IF model_name \notin DOMAIN mods THEN FloatZero
    ELSE LET input_cost == FloatMul(FloatOfRatio(input_tokens, 1000),
                                    mods[model_name].input_token_price)
             output_cost == FloatMul(FloatOfRatio(output_tokens, 1000),
                                     mods[model_name].output_token_price)
         IN  FloatAdd(input_cost, output_cost)

----------------------------------------------------------------------------
(* check_thresholds *)

\* A key of the warnings dict: [limit |-> "daily_cost", kind |-> "exceeded"]
\* stands for the key "daily_cost_exceeded", kind "warning" for "..._warning".
Signal(name, kind) == [limit |-> name, kind |-> kind]

\* one limit of check_thresholds: the keys it adds to the warnings dict
LimitSignal(limit, current, name) ==
    IF Truthy(limit)
    THEN IF current >= limit[1] THEN <<Signal(name, "exceeded")>>
         ELSE IF current * WarnDen >= limit[1] * WarnNum
              THEN <<Signal(name, "warning")>>
              ELSE << >>
    ELSE << >>

\* BillingConfig.check_thresholds: the keys of the returned dict, in insertion order
check_thresholds(s, th) ==
    LimitSignal(th.daily_cost_limit, s.daily_cost, "daily_cost")
    \o LimitSignal(th.daily_token_limit,
                   s.daily_input_tokens + s.daily_output_tokens, "daily_token")
    \o LimitSignal(th.monthly_cost_limit, s.monthly_cost, "monthly_cost")
    \o LimitSignal(th.monthly_token_limit,
                   s.monthly_input_tokens + s.monthly_output_tokens, "monthly_token")

----------------------------------------------------------------------------
(* core/billing_monitor.py *)

NoExc == [threshold_type |-> "", current_value |-> 0, limit_value |-> 0]

IsExceeded(w) == w.kind = "exceeded"
IsWarning(w) == w.kind = "warning"

\* the ThresholdExceededException built for exceeded_types[0]
ExceededException(exceeded_type, usage_info, s, th) ==
    IF exceeded_type = "daily_cost"
    THEN [threshold_type |-> "daily_cost",
          current_value |-> usage_info.daily_cost,
          limit_value |-> th.daily_cost_limit[1]]
    ELSE IF exceeded_type = "monthly_cost"
    THEN [threshold_type |-> "monthly_cost",
          current_value |-> usage_info.monthly_cost,
          limit_value |-> th.monthly_cost_limit[1]]
    ELSE IF exceeded_type = "daily_token"
    THEN [threshold_type |-> "daily_token",
          current_value |-> s.daily_input_tokens + s.daily_output_tokens,
          limit_value |-> th.daily_token_limit[1]]
    ELSE [threshold_type |-> "monthly_token",
          current_value |-> s.monthly_input_tokens + s.monthly_output_tokens,
          limit_value |-> th.monthly_token_limit[1]]

\* A callback attribute is "None" (not registered), "returns" (a callable
\* that returns) or "raises" (a callable that raises an Exception).
NoCallbacks ==
    [on_threshold_warning |-> "None", on_threshold_exceeded |-> "None",
     on_usage_update |-> "None"]

NoSignal == [limit |-> "", kind |-> ""]

\* `if self.on_x: try: self.on_x(...) except Exception: log`: the invocations made
Invoke(callback, name, signal, usage_info) ==
    IF callback = "None" THEN << >>
    ELSE <<[callback |-> name, signal |-> signal, usage_info |-> usage_info,
            raised |-> (callback = "raises")]>>

\* a dispatcher that lets the exception of on_threshold_exceeded escape
handle_threshold_warnings_uncaught(w, usage_info, s, th) ==
    LET exceeded_types == SelectSeq(w, IsExceeded)
        warning_types == SelectSeq(w, IsWarning)
    IN  IF exceeded_types # << >>
        THEN [outcome |-> IF callbacks.on_threshold_exceeded = "raises"
                          THEN "CallbackError" ELSE "ThresholdExceededException",
              exc |-> ExceededException(exceeded_types[1].limit, usage_info, s, th),
              calls |-> Invoke(callbacks.on_threshold_exceeded, "on_threshold_exceeded",
                               exceeded_types[1], usage_info)]
        ELSE IF warning_types # << >>
        THEN [outcome |-> "AttributeError", exc |-> NoExc,
              calls |-> Invoke(callbacks.on_threshold_warning, "on_threshold_warning",
                               warning_types[1], usage_info)]
        ELSE [outcome |-> "return", exc |-> NoExc, calls |-> << >>]

\* a dispatcher that lets a commit pass when the check before it allowed it
handle_threshold_warnings_honours_admission(w, usage_info, s, th) ==
    LET exceeded_types == SelectSeq(w, IsExceeded)
        warning_types == SelectSeq(w, IsWarning)
    IN  IF last.op = "check_limits_before_request" /\ last.allowed
        THEN [outcome |-> "return", exc |-> NoExc, calls |-> << >>]
        ELSE IF exceeded_types # << >>
        THEN [outcome |-> "ThresholdExceededException",
              exc |-> ExceededException(exceeded_types[1].limit, usage_info, s, th),
              calls |-> Invoke(callbacks.on_threshold_exceeded, "on_threshold_exceeded",
                               exceeded_types[1], usage_info)]
        ELSE IF warning_types # << >>
        THEN [outcome |-> "AttributeError", exc |-> NoExc,
              calls |-> Invoke(callbacks.on_threshold_warning, "on_threshold_warning",
                               warning_types[1], usage_info)]
        ELSE [outcome |-> "return", exc |-> NoExc, calls |-> << >>]

\* BillingMonitor._handle_threshold_warnings: the callbacks it invokes and how
\* it ends.  Its parameter `warnings` (the dict) shadows the module `warnings`,
\* so the first warnings.warn(...) of the warning branch raises AttributeError.
handle_threshold_warnings(w, usage_info, s, th) ==
    LET exceeded_types == SelectSeq(w, IsExceeded)
        warning_types == SelectSeq(w, IsWarning)
    IN  IF exceeded_types # << >>
        THEN [outcome |-> "ThresholdExceededException",
              exc |-> ExceededException(exceeded_types[1].limit, usage_info, s, th),
              calls |-> Invoke(callbacks.on_threshold_exceeded, "on_threshold_exceeded",
                               exceeded_types[1], usage_info)]
        ELSE IF warning_types # << >>
        THEN [outcome |-> "AttributeError", exc |-> NoExc,
              calls |-> Invoke(callbacks.on_threshold_warning, "on_threshold_warning",
                               warning_types[1], usage_info)]
        ELSE [outcome |-> "return", exc |-> NoExc, calls |-> << >>]

\* what a call leaves behind and what its caller observes
Observed(s, f, outcome, result, committed, cost, w, exc) ==
    [stats |-> s, stats_file |-> f, outcome |-> outcome, result |-> result,
     committed |-> committed, cost |-> cost, warnings |-> w, exc |-> exc,
     allowed |-> TRUE, func_called |-> FALSE, calls |-> << >>]

\* a track_usage that applies the increment first and runs the roll checks after
track_usage_rolls_after(model_name, input_tokens, output_tokens) ==
    IF ~enabled
    THEN Observed(stats, stats_file, "return", "disabled", FALSE, 0, << >>, NoExc)
    ELSE IF model_name \notin DOMAIN models /\ DOMAIN models # {}
    THEN Observed(stats, stats_file, "ModelNotConfiguredException", "none",
                  FALSE, 0, << >>, NoExc)
    ELSE
    LET cost == calculate_cost(models, model_name, input_tokens, output_tokens)
        updated == update_usage(stats, models, model_name, input_tokens, output_tokens)
        s == check_monthly_reset(check_daily_reset(updated, now), now)
        threshold_warnings == check_thresholds(s, thresholds)
        usage_info == [cost |-> cost, total_cost |-> s.total_cost,
                       daily_cost |-> s.daily_cost, monthly_cost |-> s.monthly_cost]
        h == handle_threshold_warnings(threshold_warnings, usage_info, s, thresholds)
    IN  IF h.outcome # "return"
        THEN [Observed(s, stats_file, h.outcome, "none", TRUE, cost,
                       threshold_warnings, h.exc)
                EXCEPT !.calls = h.calls]
        ELSE [Observed(s, IF auto_save THEN s ELSE stats_file, "return",
                       "usage_info", TRUE, cost, threshold_warnings, NoExc)
                EXCEPT !.calls = h.calls \o Invoke(callbacks.on_usage_update,
                                                   "on_usage_update", NoSignal,
                                                   usage_info)]

\* a track_usage that runs the roll checks before it looks the model up
track_usage_rolls_before_lookup(model_name, input_tokens, output_tokens) ==
    LET rolled == check_monthly_reset(check_daily_reset(stats, now), now)
        cost == calculate_cost(models, model_name, input_tokens, output_tokens)
        s == update_usage(rolled, models, model_name, input_tokens, output_tokens)
        threshold_warnings == check_thresholds(s, thresholds)
        usage_info == [cost |-> cost, total_cost |-> s.total_cost,
                       daily_cost |-> s.daily_cost, monthly_cost |-> s.monthly_cost]
        h == handle_threshold_warnings(threshold_warnings, usage_info, s, thresholds)
    IN  IF ~enabled
        THEN Observed(stats, stats_file, "return", "disabled", FALSE, 0, << >>, NoExc)
        ELSE IF model_name \notin DOMAIN models /\ DOMAIN models # {}
        THEN Observed(rolled, stats_file, "ModelNotConfiguredException", "none",
                      FALSE, 0, << >>, NoExc)
        ELSE IF h.outcome # "return"
        THEN [Observed(s, stats_file, h.outcome, "none", TRUE, cost,
                       threshold_warnings, h.exc)
                EXCEPT !.calls = h.calls]
        ELSE [Observed(s, IF auto_save THEN s ELSE stats_file, "return",
                       "usage_info", TRUE, cost, threshold_warnings, NoExc)
                EXCEPT !.calls = h.calls \o Invoke(callbacks.on_usage_update,
                                                   "on_usage_update", NoSignal,
                                                   usage_info)]

\* a track_usage that turns the call away, before counting it, when the
\* ledger is already over a limit
track_usage_rejects_uncounted(model_name, input_tokens, output_tokens) ==
    LET rolled == check_monthly_reset(check_daily_reset(stats, now), now)
        before == check_thresholds(rolled, thresholds)
        cost == calculate_cost(models, model_name, input_tokens, output_tokens)
        s == update_usage(rolled, models, model_name, input_tokens, output_tokens)
        threshold_warnings == check_thresholds(s, thresholds)
        usage_info == [cost |-> cost, total_cost |-> s.total_cost,
                       daily_cost |-> s.daily_cost, monthly_cost |-> s.monthly_cost]
        h == handle_threshold_warnings(threshold_warnings, usage_info, s, thresholds)
    IN  IF ~enabled
        THEN Observed(stats, stats_file, "return", "disabled", FALSE, 0, << >>, NoExc)
        ELSE IF model_name \notin DOMAIN models /\ DOMAIN models # {}
        THEN Observed(stats, stats_file, "ModelNotConfiguredException", "none",
                      FALSE, 0, << >>, NoExc)
        ELSE IF SelectSeq(before, IsExceeded) # << >>
        THEN [Observed(rolled, stats_file, "ThresholdExceededException", "none", TRUE,
                       cost, before, h.exc)
                EXCEPT !.calls = h.calls]
        ELSE IF h.outcome # "return"
        THEN [Observed(s, stats_file, h.outcome, "none", TRUE, cost,
                       threshold_warnings, h.exc)
                EXCEPT !.calls = h.calls]
        ELSE [Observed(s, IF auto_save THEN s ELSE stats_file, "return",
                       "usage_info", TRUE, cost, threshold_warnings, NoExc)
                EXCEPT !.calls = h.calls \o Invoke(callbacks.on_usage_update,
                                                   "on_usage_update", NoSignal,
                                                   usage_info)]

\* BillingMonitor.track_usage, called in the current state
track_usage(model_name, input_tokens, output_tokens) ==
    IF ~enabled
    THEN Observed(stats, stats_file, "return", "disabled", FALSE, 0, << >>, NoExc)
    ELSE IF model_name \notin DOMAIN models /\ DOMAIN models # {}
    THEN Observed(stats, stats_file, "ModelNotConfiguredException", "none",
                  FALSE, 0, << >>, NoExc)
    ELSE
    LET rolled == check_monthly_reset(check_daily_reset(stats, now), now)
        cost == calculate_cost(models, model_name, input_tokens, output_tokens)
        s == update_usage(rolled, models, model_name, input_tokens, output_tokens)
        threshold_warnings == check_thresholds(s, thresholds)
        usage_info == [cost |-> cost, total_cost |-> s.total_cost,
                       daily_cost |-> s.daily_cost, monthly_cost |-> s.monthly_cost]
        h == handle_threshold_warnings(threshold_warnings, usage_info, s, thresholds)
    IN  IF h.outcome # "return"
        THEN [Observed(s, stats_file, h.outcome, "none", TRUE, cost,
                       threshold_warnings, h.exc)
                EXCEPT !.calls = h.calls]
        ELSE [Observed(s, IF auto_save THEN s ELSE stats_file, "return",
                       "usage_info", TRUE, cost, threshold_warnings, NoExc)
                EXCEPT !.calls = h.calls \o Invoke(callbacks.on_usage_update,
                                                   "on_usage_update", NoSignal,
                                                   usage_info)]

\* BillingMonitor.track_openai_response: every Exception of track_usage is
\* caught and turned into the returned dict {"error": str(e)}
track_openai_response(model_name, input_tokens, output_tokens) ==
    LET r == track_usage(model_name, input_tokens, output_tokens) IN
    IF r.outcome = "return" THEN r
    ELSE [r EXCEPT !.outcome = "return", !.result = "error"]

\* one limit of check_limits_before_request: the entry it appends to
\* result["warnings"]
ProjectedEntry(limit, current, estimate, name) ==
    IF Truthy(limit) /\ current + estimate > limit[1]
    THEN <<[type |-> name, current |-> current,
            projected |-> current + estimate, limit |-> limit[1]]>>
    ELSE << >>

\* a check that runs the daily roll check before it projects
check_limits_rolls_daily(model_name, estimated_tokens) ==
    LET rolled == check_daily_reset(stats, now)
        estimated_cost == calculate_cost(models, model_name, estimated_tokens, 0)
        entries ==
            ProjectedEntry(thresholds.daily_cost_limit, rolled.daily_cost,
                           estimated_cost, "daily_cost_limit")
            \o ProjectedEntry(thresholds.daily_token_limit,
                              rolled.daily_input_tokens + rolled.daily_output_tokens,
                              estimated_tokens, "daily_token_limit")
    IN  [Observed(rolled, stats_file, "return", "check", FALSE, estimated_cost,
                  entries, NoExc)
            EXCEPT !.allowed = (entries = << >>)]

\* a check that raises on a projected violation, as the commit does
check_limits_raises(model_name, estimated_tokens) ==
    LET estimated_cost == calculate_cost(models, model_name, estimated_tokens, 0)
        entries ==
            ProjectedEntry(thresholds.daily_cost_limit, stats.daily_cost,
                           estimated_cost, "daily_cost_limit")
            \o ProjectedEntry(thresholds.daily_token_limit,
                              stats.daily_input_tokens + stats.daily_output_tokens,
                              estimated_tokens, "daily_token_limit")
    IN  IF entries # << >>
        THEN Observed(stats, stats_file, "ThresholdExceededException", "none",
                      FALSE, estimated_cost, entries, NoExc)
        ELSE Observed(stats, stats_file, "return", "check", FALSE, estimated_cost,
                      entries, NoExc)

\* BillingMonitor.check_limits_before_request, called in the current state:
\* the returned dict, and the ledger as the call leaves it (it assigns nothing)
check_limits_before_request(model_name, estimated_tokens) ==
    IF ~enabled
    THEN [Observed(stats, stats_file, "return", "check", FALSE, 0, << >>, NoExc)
            EXCEPT !.allowed = TRUE]
    ELSE
    LET estimated_cost == calculate_cost(models, model_name, estimated_tokens, 0)
        entries ==
            ProjectedEntry(thresholds.daily_cost_limit, stats.daily_cost,
                           estimated_cost, "daily_cost_limit")
            \o ProjectedEntry(thresholds.monthly_cost_limit, stats.monthly_cost,
                              estimated_cost, "monthly_cost_limit")
            \o ProjectedEntry(thresholds.daily_token_limit,
                              stats.daily_input_tokens + stats.daily_output_tokens,
                              estimated_tokens, "daily_token_limit")
            \o ProjectedEntry(thresholds.monthly_token_limit,
                              stats.monthly_input_tokens + stats.monthly_output_tokens,
                              estimated_tokens, "monthly_token_limit")
    IN  [Observed(stats, stats_file, "return", "check", FALSE, estimated_cost,
                  entries, NoExc)
            EXCEPT !.allowed = (entries = << >>)]

\* ConfigManager.reset_usage_stats as BillingMonitor.reset_usage_stats calls it;
\* load_config returns the cached object, the monitor's own config
reset_usage_stats(reset_type) ==
    LET s == IF reset_type = "all" THEN reset_all_stats(stats, now)
             ELSE IF reset_type = "daily" THEN reset_daily_stats(stats, now)
             ELSE IF reset_type = "monthly" THEN reset_monthly_stats(stats, now)
             ELSE stats
    IN  Observed(s, s, "return", "none", FALSE, 0, << >>, NoExc)

----------------------------------------------------------------------------
(* core/decorators.py *)

\* a wrapper that makes the call and tracks it before it looks at the check
monitored_call_checks_late(model_name, pre_check, raise_on_limit, estimated_tokens, input_tokens, output_tokens) ==
    LET check_result == check_limits_before_request(model_name, estimated_tokens)
        usage_info == track_openai_response(model_name, input_tokens, output_tokens)
    IN  IF ~enabled
        THEN [Observed(stats, stats_file, "return", "func_result", FALSE, 0, << >>, NoExc)
                EXCEPT !.func_called = TRUE]
        ELSE IF pre_check /\ ~check_result.allowed /\ raise_on_limit
                /\ check_result.warnings # << >>
        THEN [usage_info EXCEPT !.outcome = "BillingException", !.result = "none",
                                !.func_called = TRUE]
        ELSE [usage_info EXCEPT !.result = "func_result", !.func_called = TRUE]

\* monitor_openai_call(...)(func)(...): func returns a response whose usage is
\* (input_tokens, output_tokens); estimated_tokens is what
\* _estimate_request_tokens returns for the request
monitored_call(model_name, pre_check, raise_on_limit, estimated_tokens, input_tokens, output_tokens) ==
    IF ~enabled
    THEN [Observed(stats, stats_file, "return", "func_result", FALSE, 0, << >>, NoExc)
            EXCEPT !.func_called = TRUE]
    ELSE
    LET check_result == check_limits_before_request(model_name, estimated_tokens) IN
    IF pre_check /\ ~check_result.allowed /\ raise_on_limit
       /\ check_result.warnings # << >>
    THEN [check_result EXCEPT !.outcome = "BillingException", !.result = "none"]
    ELSE
    LET usage_info == track_openai_response(model_name, input_tokens, output_tokens)
    IN  [usage_info EXCEPT !.result = "func_result", !.func_called = TRUE]

----------------------------------------------------------------------------
(* The state machine *)

Catalog == [n \in {"m"} |->
              [input_token_price |-> 1, output_token_price |-> 2]]

Thresholds(dc, mc, dt, mt) ==
    [daily_cost_limit |-> dc, monthly_cost_limit |-> mc,
     daily_token_limit |-> dt, monthly_token_limit |-> mt]

\* the configurations a run may start with: between them every limit is
\* configured once, and one limit is configured as 0
ThresholdChoices ==
    { Thresholds(Some(CostLimit), None, None, Some(TokenLimit)),
      Thresholds(Some(0), Some(CostLimit), Some(TokenLimit), None) }

\* no thread is inside track_usage
NoThreads == << >>

\* no with block is open
NoContexts == << >>

Call(op, model_name, input_tokens, output_tokens, estimated_tokens, reset_type, r) ==
    [op |-> op, model_name |-> model_name, input_tokens |-> input_tokens,
     output_tokens |-> output_tokens, estimated_tokens |-> estimated_tokens,
     reset_type |-> reset_type,
     outcome |-> r.outcome, result |-> r.result, committed |-> r.committed,
     cost |-> r.cost, warnings |-> r.warnings, exc |-> r.exc,
     allowed |-> r.allowed, func_called |-> r.func_called, calls |-> r.calls,
     after_check |-> "none", pre_check |-> FALSE, raise_on_limit |-> FALSE]

NoCall(op) ==
    Call(op, "", 0, 0, 0, "",
         Observed(stats, stats_file, "return", "none", FALSE, 0, << >>, NoExc))

Init ==
    /\ now = Calendar[1]
    /\ stats = NewUsageStats(now)
    /\ thresholds \in ThresholdChoices
    /\ models = Catalog
    /\ enabled = TRUE
    /\ auto_save = TRUE
    /\ stats_file = stats
    /\ callbacks = NoCallbacks
    /\ threads = NoThreads
    /\ contexts = NoContexts
    /\ last = NoCall("init")

Config == <<thresholds, models, enabled, auto_save>>

\* the monitor's callback attributes, the threads inside it and the context
\* managers open on it
Monitor == <<callbacks, threads, contexts>>

\* after_check tells whether the call before this one was a check, and what
\* that check answered
Apply(r, call) ==
    /\ stats' = r.stats
    /\ stats_file' = r.stats_file
    /\ last' = [call EXCEPT !.after_check =
                    IF last.op = "check_limits_before_request"
                    THEN IF last.allowed THEN "allowed" ELSE "denied"
                    ELSE "none"]
    /\ UNCHANGED <<Config, Monitor, now>>

TrackUsage ==
    \E model_name \in ModelNames, input_tokens \in InputUnits,
       output_tokens \in OutputUnits :
        /\ stats.total_requests < MaxRequests
        /\ LET r == track_usage(model_name, input_tokens, output_tokens) IN
           Apply(r, Call("track_usage", model_name, input_tokens, output_tokens,
                         0, "", r))

TrackOpenAIResponse ==
    \E model_name \in ModelNames, input_tokens \in InputUnits,
       output_tokens \in OutputUnits :
        /\ stats.total_requests < MaxRequests
        /\ LET r == track_openai_response(model_name, input_tokens, output_tokens) IN
           Apply(r, Call("track_openai_response", model_name, input_tokens,
                         output_tokens, 0, "", r))

MonitoredCall ==
    \E model_name \in ModelNames, estimated_tokens \in InputUnits,
       input_tokens \in InputUnits, output_tokens \in OutputUnits :
        /\ stats.total_requests < MaxRequests
        /\ LET r == monitored_call(model_name, TRUE, TRUE, estimated_tokens,
                                   input_tokens, output_tokens) IN
           Apply(r, Call("monitored_call", model_name, input_tokens, output_tokens,
                         estimated_tokens, "", r))

CheckLimits ==
    \E model_name \in ModelNames, estimated_tokens \in InputUnits :
        /\ estimated_tokens >= 0
        /\ LET r == check_limits_before_request(model_name, estimated_tokens) IN
           Apply(r, Call("check_limits_before_request", model_name, 0, 0,
                         estimated_tokens, "", r))

ResetUsageStats ==
    \E reset_type \in ResetTypes :
        /\ reset_type \in {"all", "daily", "monthly"}
        /\ LET r == reset_usage_stats(reset_type) IN
           Apply(r, Call("reset_usage_stats", "", 0, 0, 0, reset_type, r))

\* the calendar day changes
Tick ==
    \E i \in 1..(Len(Calendar) - 1) :
        /\ now = Calendar[i]
        /\ now' = Calendar[i + 1]
        /\ last' = NoCall("tick")
        /\ UNCHANGED <<stats, stats_file, Config, Monitor>>

\* the ledger and its clock
Next ==
    \/ TrackUsage
    \/ ResetUsageStats
    \/ Tick

Spec == Init /\ [][Next]_vars

\* the admission check beside the commits it projects
NextAdmission ==
    \/ CheckLimits
    \/ TrackUsage
    \/ Tick

SpecAdmission == Init /\ [][NextAdmission]_vars

\* the entry points through which a collaborator commits
NextEntry ==
    \/ TrackUsage
    \/ TrackOpenAIResponse
    \/ MonitoredCall
    \/ Tick

SpecEntry == Init /\ [][NextEntry]_vars

\* callers that break the contract: a negative number of units
InvalidUnits == {-1}

TrackUsageInvalid ==
    \E model_name \in {"m"}, input_tokens \in InputUnits \cup InvalidUnits,
       output_tokens \in OutputUnits \cup InvalidUnits :
        /\ input_tokens \in InvalidUnits \/ output_tokens \in InvalidUnits
        /\ stats.total_requests < MaxRequests
        /\ LET r == track_usage(model_name, input_tokens, output_tokens) IN
           Apply(r, Call("track_usage", model_name, input_tokens, output_tokens,
                         0, "", r))

CheckLimitsInvalid ==
    \E model_name \in {"m"}, estimated_tokens \in InvalidUnits :
        /\ estimated_tokens < 0
        /\ LET r == check_limits_before_request(model_name, estimated_tokens) IN
           Apply(r, Call("check_limits_before_request", model_name, 0, 0,
                         estimated_tokens, "", r))

NextInvalid ==
    \/ TrackUsage
    \/ TrackUsageInvalid
    \/ CheckLimitsInvalid
    \/ Tick

SpecInvalid == Init /\ [][NextInvalid]_vars

\* The dispatcher: commits on a monitor whose three callback attributes were
\* assigned before the first call
AllCallbacks(behaviour) ==
    [on_threshold_warning |-> behaviour, on_threshold_exceeded |-> behaviour,
     on_usage_update |-> behaviour]

CallbackChoices == {NoCallbacks, AllCallbacks("returns"), AllCallbacks("raises")}

InitDispatch ==
    /\ now = Calendar[1]
    /\ stats = NewUsageStats(now)
    /\ thresholds \in ThresholdChoices
    /\ models = Catalog
    /\ enabled = TRUE
    /\ auto_save = TRUE
    /\ stats_file = stats
    /\ callbacks \in CallbackChoices
    /\ threads = NoThreads
    /\ contexts = NoContexts
    /\ last = NoCall("init")

NextDispatch ==
    \/ TrackUsage
    \/ Tick

SpecDispatch == InitDispatch /\ [][NextDispatch]_vars

\* Threshold evaluation as a function: a ledger and thresholds drawn from
\* bounded sets, then one call of check_thresholds.
OptionalLimits(limit) == {None, Some(0), Some(limit)}

AllThresholds ==
    [daily_cost_limit : OptionalLimits(CostLimit),
     monthly_cost_limit : OptionalLimits(CostLimit),
     daily_token_limit : OptionalLimits(TokenLimit),
     monthly_token_limit : OptionalLimits(TokenLimit)]

\* the ledger after a first day's spending (earlier_*) and today's commit
LedgerOf(t, earlier_tokens, earlier_cost, tokens, cost) ==
    [NewUsageStats(t) EXCEPT
        !.total_input_tokens = earlier_tokens + tokens,
        !.total_cost = earlier_cost + cost,
        !.monthly_input_tokens = earlier_tokens + tokens,
        !.monthly_cost = earlier_cost + cost,
        !.daily_input_tokens = tokens,
        !.daily_cost = cost,
        !.request_count = 2, !.total_requests = 2,
        !.monthly_requests = 2, !.daily_requests = 1]

InitEvaluate ==
    /\ now = Calendar[2]
    /\ \E earlier_tokens \in {0, 1}, earlier_cost \in {0, 1},
          tokens \in 0..TokenLimit, cost \in 0..CostLimit :
            stats = LedgerOf(now, earlier_tokens, earlier_cost, tokens, cost)
    /\ thresholds \in AllThresholds
    /\ models = Catalog
    /\ enabled = TRUE
    /\ auto_save = TRUE
    /\ stats_file = stats
    /\ callbacks = NoCallbacks
    /\ threads = NoThreads
    /\ contexts = NoContexts
    /\ last = NoCall("init")

Evaluate ==
    /\ last.op = "init"
    /\ last' = [NoCall("check_thresholds") EXCEPT
                    !.warnings = check_thresholds(stats, thresholds)]
    /\ UNCHANGED <<stats, stats_file, Config, Monitor, now>>

SpecEvaluate == InitEvaluate /\ [][Evaluate]_vars

\* The roll checks as functions: a ledger whose reset timestamps and whose clock
\* are any days of the calendar (the timestamps come from the stats file and
\* the clock is the local wall clock, so neither bounds the other), then calls
\* of check_daily_reset and check_monthly_reset.
RollDates == {Calendar[i] : i \in 1..Len(Calendar)}

InitRoll ==
    /\ now \in RollDates
    /\ \E earlier \in {0, 1}, today \in {0, 1},
          last_daily_reset \in RollDates, last_monthly_reset \in RollDates :
            stats = [LedgerOf(Calendar[1], earlier, earlier, today, today) EXCEPT
                        !.last_daily_reset = last_daily_reset,
                        !.last_monthly_reset = last_monthly_reset]
    /\ thresholds = Thresholds(None, None, None, None)
    /\ models = Catalog
    /\ enabled = TRUE
    /\ auto_save = TRUE
    /\ stats_file = stats
    /\ callbacks = NoCallbacks
    /\ threads = NoThreads
    /\ contexts = NoContexts
    /\ last = NoCall("init")

\* result "again" marks a call that directly follows a call of the same check
RollDaily ==
    /\ stats' = check_daily_reset(stats, now)
    /\ last' = [NoCall("check_daily_reset") EXCEPT
                    !.result = IF last.op = "check_daily_reset"
                               THEN "again" ELSE "first"]
    /\ UNCHANGED <<stats_file, Config, Monitor, now>>

RollMonthly ==
    /\ stats' = check_monthly_reset(stats, now)
    /\ last' = [NoCall("check_monthly_reset") EXCEPT
                    !.result = IF last.op = "check_monthly_reset"
                               THEN "again" ELSE "first"]
    /\ UNCHANGED <<stats_file, Config, Monitor, now>>

NextRoll ==
    \/ RollDaily
    \/ RollMonthly

SpecRoll == InitRoll /\ [][NextRoll]_vars

\* Concurrent callers.  BillingMonitor holds no lock, so a thread inside
\* track_usage can be preempted between the steps below: the test of a roll
\* check, the reset it decides on, and the load and the store of each `+=` of
\* update_usage, in the order of the code.  The schedules taken are those in
\* which one call is preempted, at any of its steps, by the whole of the other
\* call, and the two serial ones; a reset is taken as one step.
ThreadIds == {1, 2}

\* no other thread is part-way through track_usage
OthersNotInside(t) ==
    \A u \in ThreadIds \ {t} : threads[u].pc \in {"check_daily_reset", "done"}

UpdateOrder ==
    <<"total_input_tokens", "total_output_tokens", "total_cost", "request_count",
      "total_requests",
      "daily_input_tokens", "daily_output_tokens", "daily_cost", "daily_requests",
      "monthly_input_tokens", "monthly_output_tokens", "monthly_cost",
      "monthly_requests">>

\* the right-hand side of the `+=` on a field
Increment(field, th) ==
    IF field \in {"total_input_tokens", "daily_input_tokens", "monthly_input_tokens"}
    THEN th.input_tokens
    ELSE IF field \in {"total_output_tokens", "daily_output_tokens",
                       "monthly_output_tokens"}
    THEN th.output_tokens
    ELSE IF field \in {"total_cost", "daily_cost", "monthly_cost"}
    THEN calculate_cost(models, th.model_name, th.input_tokens, th.output_tokens)
    ELSE 1

\* the ledger the threads find: one commit made on the first day
InitialLedger == update_usage(NewUsageStats(Calendar[1]), Catalog, "m", 1, 1)

InitConcurrent ==
    /\ now \in {Calendar[1], Calendar[2], Calendar[3]}
    /\ stats = InitialLedger
    /\ thresholds = Thresholds(None, None, None, None)
    /\ models = Catalog
    /\ enabled = TRUE
    /\ auto_save = TRUE
    /\ stats_file = stats
    /\ callbacks = NoCallbacks
    /\ contexts = NoContexts
    /\ threads = [t \in ThreadIds |->
                    [pc |-> "check_daily_reset", k |-> 1, reg |-> 0,
                     model_name |-> "m", input_tokens |-> 1,
                     output_tokens |-> IF t = 1 THEN 0 ELSE 1]]
    /\ last = NoCall("init")

\* `if now.date() > last_daily_reset.date():` and
\* `if now.year > last.year or now.month > last.month:`
ThreadRollTest ==
    \E t \in ThreadIds :
        /\ threads[t].pc \in {"check_daily_reset", "check_monthly_reset"}
        /\ OthersNotInside(t)
        /\ threads' = [threads EXCEPT ![t].pc =
                IF threads[t].pc = "check_daily_reset"
                THEN IF DateAfter(now, stats.last_daily_reset)
                     THEN "reset_daily_stats" ELSE "check_monthly_reset"
                ELSE IF now.year > stats.last_monthly_reset.year
                        \/ now.month > stats.last_monthly_reset.month
                     THEN "reset_monthly_stats" ELSE "load"]
        /\ UNCHANGED <<stats, stats_file, Config, callbacks, contexts, now, last>>

ThreadRollReset ==
    \E t \in ThreadIds :
        /\ threads[t].pc \in {"reset_daily_stats", "reset_monthly_stats"}
        /\ OthersNotInside(t)
        /\ stats' = IF threads[t].pc = "reset_daily_stats"
                    THEN reset_daily_stats(stats, now)
                    ELSE reset_monthly_stats(stats, now)
        /\ threads' = [threads EXCEPT ![t].pc =
                IF threads[t].pc = "reset_daily_stats"
                THEN "check_monthly_reset" ELSE "load"]
        /\ UNCHANGED <<stats_file, Config, callbacks, contexts, now, last>>

\* the read of `self.usage_stats.f += v`
ThreadLoad ==
    \E t \in ThreadIds :
        /\ threads[t].pc = "load"
        /\ OthersNotInside(t)
        /\ threads' = [threads EXCEPT ![t].pc = "store",
                                      ![t].reg = stats[UpdateOrder[threads[t].k]]]
        /\ UNCHANGED <<stats, stats_file, Config, callbacks, contexts, now, last>>

\* the write of `self.usage_stats.f += v`
ThreadStore ==
    \E t \in ThreadIds :
        /\ threads[t].pc = "store"
        /\ OthersNotInside(t)
        /\ stats' = [stats EXCEPT ![UpdateOrder[threads[t].k]] =
                        threads[t].reg + Increment(UpdateOrder[threads[t].k], threads[t])]
        /\ threads' = [threads EXCEPT
                ![t].pc = IF threads[t].k = Len(UpdateOrder) THEN "save" ELSE "load",
                ![t].k = IF threads[t].k = Len(UpdateOrder) THEN @ ELSE @ + 1]
        /\ UNCHANGED <<stats_file, Config, callbacks, contexts, now, last>>

\* check_thresholds, _handle_threshold_warnings, save_config and the return
ThreadReturn ==
    \E t \in ThreadIds :
        /\ threads[t].pc = "save"
        /\ OthersNotInside(t)
        /\ LET th == threads[t]
               cost == calculate_cost(models, th.model_name, th.input_tokens,
                                      th.output_tokens)
               threshold_warnings == check_thresholds(stats, thresholds)
               usage_info == [cost |-> cost, total_cost |-> stats.total_cost,
                              daily_cost |-> stats.daily_cost,
                              monthly_cost |-> stats.monthly_cost]
               h == handle_threshold_warnings(threshold_warnings, usage_info, stats,
                                              thresholds)
               r == [Observed(stats,
                              IF h.outcome = "return" /\ auto_save
                              THEN stats ELSE stats_file,
                              h.outcome,
                              IF h.outcome = "return" THEN "usage_info" ELSE "none",
                              TRUE, cost, threshold_warnings, h.exc)
                        EXCEPT !.calls = h.calls]
           IN  /\ stats_file' = r.stats_file
               /\ last' = Call("track_usage", th.model_name, th.input_tokens,
                               th.output_tokens, 0, "", r)
        /\ threads' = [threads EXCEPT ![t].pc = "done"]
        /\ UNCHANGED <<stats, Config, callbacks, contexts, now>>

\* a whole call of track_usage with no preemption inside it
ThreadRunsThrough ==
    \E t \in ThreadIds :
        /\ threads[t].pc = "check_daily_reset"
        /\ LET r == track_usage(threads[t].model_name, threads[t].input_tokens,
                                threads[t].output_tokens)
           IN  /\ stats' = r.stats
               /\ stats_file' = r.stats_file
               /\ last' = Call("track_usage", threads[t].model_name,
                               threads[t].input_tokens, threads[t].output_tokens,
                               0, "", r)
        /\ threads' = [threads EXCEPT ![t].pc = "done"]
        /\ UNCHANGED <<Config, callbacks, contexts, now>>

NextConcurrent ==
    \/ ThreadRunsThrough
    \/ ThreadRollTest
    \/ ThreadRollReset
    \/ ThreadLoad
    \/ ThreadStore
    \/ ThreadReturn

SpecConcurrent == InitConcurrent /\ [][NextConcurrent]_vars

----------------------------------------------------------------------------
(* Pricing: estimate_cost over a catalog with the float prices of the      *)
(* default configuration.                                                  *)

\* get_default_model_configs: "gpt-4" 0.03 / 0.06, "gpt-3.5-turbo" 0.0015 / 0.002
FloatCatalog ==
    [n \in {"gpt-4", "gpt-3.5-turbo"} |->
        IF n = "gpt-4"
        THEN [input_token_price |-> FloatOfRatio(3, 100),
              output_token_price |-> FloatOfRatio(6, 100)]
        ELSE [input_token_price |-> FloatOfRatio(15, 10000),
              output_token_price |-> FloatOfRatio(2, 1000)]]

PricedModels == {"gpt-4", "gpt-3.5-turbo", "unlisted"}
PricedUnits == 0..6

\* BillingMonitor.estimate_cost
estimate_cost(mods, model_name, input_tokens, output_tokens) ==
    calculate_cost_float(mods, model_name, input_tokens, output_tokens)

InitPrice ==
    /\ now = Calendar[1]
    /\ stats = NewUsageStats(now)
    /\ thresholds = Thresholds(None, None, None, None)
    /\ models = FloatCatalog
    /\ enabled = TRUE
    /\ auto_save = TRUE
    /\ stats_file = stats
    /\ callbacks = NoCallbacks
    /\ threads = NoThreads
    /\ contexts = NoContexts
    /\ last = [NoCall("init") EXCEPT !.cost = FloatZero]

EstimateCost ==
    /\ enabled
    /\ \E model_name \in PricedModels, input_tokens \in PricedUnits, output_tokens \in PricedUnits :
          last' = [NoCall("estimate_cost") EXCEPT
                      !.model_name = model_name,
                      !.input_tokens = input_tokens,
                      !.output_tokens = output_tokens,
                      !.cost = estimate_cost(models, model_name, input_tokens, output_tokens)]
    /\ UNCHANGED <<stats, stats_file, Config, Monitor, now>>

NextPrice == EstimateCost

SpecPrice == InitPrice /\ [][NextPrice]_vars

----------------------------------------------------------------------------
(* Commits under a catalog that lists a model and under an empty catalog.  *)

\* BillingConfig.models as constructed: Field(default_factory=dict)
EmptyCatalog == [n \in {} |-> [input_token_price |-> 0, output_token_price |-> 0]]

InitCatalog ==
    /\ now = Calendar[1]
    /\ stats = NewUsageStats(now)
    /\ thresholds \in ThresholdChoices
    /\ models \in {Catalog, EmptyCatalog}
    /\ enabled = TRUE
    /\ auto_save = TRUE
    /\ stats_file = stats
    /\ callbacks = NoCallbacks
    /\ threads = NoThreads
    /\ contexts = NoContexts
    /\ last = NoCall("init")

NextCatalog ==
    \/ TrackUsage
    \/ Tick

SpecCatalog == InitCatalog /\ [][NextCatalog]_vars

----------------------------------------------------------------------------
(* Calls through the decorator, with each setting of pre_check and         *)
(* raise_on_limit.  The ledger may take one call more than MaxRequests     *)
(* commits, so that a call is made on a ledger that is over a limit.       *)

DecoratedCall ==
    \E model_name \in DOMAIN models, pre_check \in BOOLEAN, raise_on_limit \in BOOLEAN,
       estimated_tokens \in InputUnits, input_tokens \in InputUnits,
       output_tokens \in OutputUnits :
        /\ stats.total_requests <= MaxRequests
        /\ LET r == monitored_call(model_name, pre_check, raise_on_limit,
                                   estimated_tokens, input_tokens, output_tokens) IN
           Apply(r, [Call("monitored_call", model_name, input_tokens, output_tokens,
                          estimated_tokens, "", r)
                       EXCEPT !.pre_check = pre_check,
                              !.raise_on_limit = raise_on_limit])

NextDecorator == DecoratedCall

SpecDecorator == Init /\ [][NextDecorator]_vars

----------------------------------------------------------------------------
(* refresh_config, with the stats file also written from outside the       *)
(* monitor (another ConfigManager on the same directory).                  *)

\* ConfigManager.load_config: the cached BillingConfig when there is one,
\* else what the files hold
load_config(billing_config, file) ==
    IF billing_config # None THEN billing_config[1] ELSE file

\* BillingMonitor.refresh_config; the manager's cache was filled by the
\* load_config call of BillingMonitor.__init__ and holds the monitor's own
\* config object
refresh_config ==
    Observed(load_config(Some(stats), stats_file), stats_file, "return", "none",
             FALSE, 0, << >>, NoExc)

RefreshConfig ==
    /\ enabled
    /\ LET r == refresh_config IN
       Apply(r, Call("refresh_config", "", 0, 0, 0, "", r))

\* another ConfigManager saves its own usage stats: a ledger that took one
\* more request, or one that was reset
ExternalWrite ==
    /\ stats_file.total_requests <= MaxRequests
    /\ \E written \in {update_usage(stats_file, models, "m", 1, 0),
                        reset_all_stats(stats_file, now)} :
          /\ stats_file' = written
          /\ last' = NoCall("external_write")
    /\ UNCHANGED <<stats, Config, Monitor, now>>

NextRefresh ==
    \/ TrackUsage
    \/ ExternalWrite
    \/ RefreshConfig

SpecRefresh == Init /\ [][NextRefresh]_vars

----------------------------------------------------------------------------
(* A caller that keeps calling through the decorator with pre_check and    *)
(* raise_on_limit while days pass.  Only one daily limit is configured, so *)
(* a denied check is about the daily window.  Weak fairness on the call:    *)
(* the caller does not stop calling.  The number of commits is bounded,    *)
(* except that a call can always be made when a daily roll is due.         *)

DailyLimitChoices ==
    { Thresholds(None, None, Some(TokenLimit), None),
      Thresholds(Some(CostLimit), None, None, None) }

InitWindow ==
    /\ now = Calendar[1]
    /\ stats = NewUsageStats(now)
    /\ thresholds \in DailyLimitChoices
    /\ models = Catalog
    /\ enabled = TRUE
    /\ auto_save = TRUE
    /\ stats_file = stats
    /\ callbacks = NoCallbacks
    /\ threads = NoThreads
    /\ contexts = NoContexts
    /\ last = NoCall("init")

StrictCall ==
    \E model_name \in DOMAIN models, estimated_tokens \in InputUnits,
       input_tokens \in InputUnits, output_tokens \in OutputUnits :
        /\ \/ stats.total_requests <= MaxRequests
           \/ check_daily_reset(stats, now) # stats
        /\ LET r == monitored_call(model_name, TRUE, TRUE, estimated_tokens,
                                   input_tokens, output_tokens) IN
           Apply(r, [Call("monitored_call", model_name, input_tokens, output_tokens,
                          estimated_tokens, "", r)
                       EXCEPT !.pre_check = TRUE, !.raise_on_limit = TRUE])

NextWindow ==
    \/ StrictCall
    \/ Tick

SpecWindow == InitWindow /\ [][NextWindow]_vars /\ WF_vars(StrictCall)

----------------------------------------------------------------------------
(* Commits during which the clock may advance.  check_daily_reset and      *)
(* check_monthly_reset each call datetime.now(): the two readings of one   *)
(* commit are the same instant or two consecutive instants of MonthEnd.    *)

MonthEnd == <<DateTime(0, 1, 30), DateTime(0, 1, 31), DateTime(0, 2, 1), DateTime(0, 2, 2)>>

\* BillingMonitor.track_usage with the clock readings of its two roll checks
track_usage_at(model_name, input_tokens, output_tokens, daily_now, monthly_now) ==
    IF ~enabled
    THEN Observed(stats, stats_file, "return", "disabled", FALSE, 0, << >>, NoExc)
    ELSE IF model_name \notin DOMAIN models /\ DOMAIN models # {}
    THEN Observed(stats, stats_file, "ModelNotConfiguredException", "none",
                  FALSE, 0, << >>, NoExc)
    ELSE
    LET rolled == check_monthly_reset(check_daily_reset(stats, daily_now), monthly_now)
        cost == calculate_cost(models, model_name, input_tokens, output_tokens)
        s == update_usage(rolled, models, model_name, input_tokens, output_tokens)
        threshold_warnings == check_thresholds(s, thresholds)
        usage_info == [cost |-> cost, total_cost |-> s.total_cost,
                       daily_cost |-> s.daily_cost, monthly_cost |-> s.monthly_cost]
        h == handle_threshold_warnings(threshold_warnings, usage_info, s, thresholds)
    IN  IF h.outcome # "return"
        THEN [Observed(s, stats_file, h.outcome, "none", TRUE, cost,
                       threshold_warnings, h.exc)
                EXCEPT !.calls = h.calls]
        ELSE [Observed(s, IF auto_save THEN s ELSE stats_file, "return",
                       "usage_info", TRUE, cost, threshold_warnings, NoExc)
                EXCEPT !.calls = h.calls \o Invoke(callbacks.on_usage_update,
                                                   "on_usage_update", NoSignal,
                                                   usage_info)]

InitMonthEnd ==
    /\ now = MonthEnd[1]
    /\ stats = NewUsageStats(now)
    /\ thresholds \in ThresholdChoices
    /\ models = Catalog
    /\ enabled = TRUE
    /\ auto_save = TRUE
    /\ stats_file = stats
    /\ callbacks = NoCallbacks
    /\ threads = NoThreads
    /\ contexts = NoContexts
    /\ last = NoCall("init")

TrackUsageWhileClockRuns ==
    \E model_name \in ModelNames, input_tokens \in InputUnits,
       output_tokens \in OutputUnits, i \in 1..Len(MonthEnd), j \in 1..Len(MonthEnd) :
        /\ stats.total_requests < MaxRequests
        /\ now = MonthEnd[i]
        /\ j \in {i, i + 1}
        /\ LET r == track_usage_at(model_name, input_tokens, output_tokens,
                                   MonthEnd[i], MonthEnd[j]) IN
             /\ stats' = r.stats
             /\ stats_file' = r.stats_file
             /\ last' = Call("track_usage", model_name, input_tokens, output_tokens,
                             0, "", r)
        /\ now' = MonthEnd[j]
        /\ UNCHANGED <<Config, Monitor>>

TickMonthEnd ==
    \E i \in 1..(Len(MonthEnd) - 1) :
        /\ now = MonthEnd[i]
        /\ now' = MonthEnd[i + 1]
        /\ last' = NoCall("tick")
        /\ UNCHANGED <<stats, stats_file, Config, Monitor>>

NextMonthEnd ==
    \/ TrackUsageWhileClockRuns
    \/ TickMonthEnd

SpecMonthEnd == InitMonthEnd /\ [][NextMonthEnd]_vars

----------------------------------------------------------------------------
(* Commits on a ledger that is already over a limit: beyond the            *)
(* MaxRequests commits of Spec, one more commit is made when the ledger    *)
(* holds MaxRequests requests and check_thresholds reports a limit as      *)
(* exceeded.                                                               *)

TrackUsageOverLimit ==
    \E model_name \in ModelNames, input_tokens \in InputUnits,
       output_tokens \in OutputUnits :
        /\ stats.total_requests = MaxRequests
        /\ SelectSeq(check_thresholds(stats, thresholds), IsExceeded) # << >>
        /\ LET r == track_usage(model_name, input_tokens, output_tokens) IN
           Apply(r, Call("track_usage", model_name, input_tokens, output_tokens,
                         0, "", r))

NextSticky ==
    \/ TrackUsage
    \/ TrackUsageOverLimit
    \/ Tick

SpecSticky == Init /\ [][NextSticky]_vars

----------------------------------------------------------------------------
(* Monitoring switched off and on: config.enabled as configured, and the   *)
(* with blocks of temporary_monitoring and disable_monitoring, which nest.  *)
(* A block is left normally or by an exception raised inside it.           *)

ContextKinds == {"temporary_monitoring", "disable_monitoring"}

\* __init__ then __enter__: the object remembers config.enabled and sets it
enter_context(kind) ==
    [kind |-> kind, original_enabled |-> Some(enabled)]

\* an __exit__ that puts the value back only when the block ended normally
exit_context_keeps_on_exception(context, exc_type) ==
    IF exc_type = "None" /\ context.original_enabled # None
    THEN context.original_enabled[1]
    ELSE enabled

\* __exit__(exc_type, exc_val, exc_tb): the value config.enabled gets; the
\* arguments are not looked at and None is returned, so an exception goes on
exit_context(context, exc_type) ==
    IF context.original_enabled # None THEN context.original_enabled[1] ELSE enabled

InitInert ==
    /\ now = Calendar[1]
    /\ stats = NewUsageStats(now)
    /\ thresholds = Thresholds(Some(CostLimit), None, None, Some(TokenLimit))
    /\ models = Catalog
    /\ enabled \in BOOLEAN
    /\ auto_save = TRUE
    /\ stats_file = stats
    /\ callbacks = AllCallbacks("returns")
    /\ threads = NoThreads
    /\ contexts = NoContexts
    /\ last = NoCall("init")

EnterContext ==
    \E kind \in ContextKinds :
        /\ Len(contexts) < 2
        /\ contexts' = Append(contexts, enter_context(kind))
        /\ enabled' = (kind = "temporary_monitoring")
        /\ last' = [NoCall("enter") EXCEPT !.result = kind]
        /\ UNCHANGED <<stats, stats_file, thresholds, models, auto_save,
                       callbacks, threads, now>>

ExitContext ==
    \E exc_type \in {"None", "Exception"} :
        /\ contexts # << >>
        /\ contexts' = SubSeq(contexts, 1, Len(contexts) - 1)
        /\ enabled' = exit_context(contexts[Len(contexts)], exc_type)
        /\ last' = [NoCall("exit") EXCEPT
                        !.result = contexts[Len(contexts)].kind,
                        !.outcome = IF exc_type = "None" THEN "return" ELSE exc_type]
        /\ UNCHANGED <<stats, stats_file, thresholds, models, auto_save,
                       callbacks, threads, now>>

\* commits are counted on an empty ledger only, so that the ledgers of this
\* specification hold at most one request; a disabled monitor is called on
\* any of them
TrackUsageSwitched ==
    /\ ~enabled \/ stats.total_requests = 0
    /\ TrackUsage

MonitoredCallSwitched ==
    /\ ~enabled \/ stats.total_requests = 0
    /\ MonitoredCall

NextInert ==
    \/ TrackUsageSwitched
    \/ CheckLimits
    \/ MonitoredCallSwitched
    \/ EnterContext
    \/ ExitContext
    \/ Tick

SpecInert == InitInert /\ [][NextInert]_vars

----------------------------------------------------------------------------
(* Claims *)

Committed(l) ==
    l.op \in {"track_usage", "track_openai_response", "monitored_call"} /\ l.committed

\* C1: in every state reached from a fresh ledger by commits with non-negative
\* units, rollovers and resets, each daily and each monthly counter (input
\* tokens, output tokens, cost, requests) is at most the lifetime counter.
C1_WindowsWithinLifetime ==
    /\ stats.daily_input_tokens <= stats.total_input_tokens
    /\ stats.daily_output_tokens <= stats.total_output_tokens
    /\ stats.daily_cost <= stats.total_cost
    /\ stats.daily_requests <= stats.total_requests
    /\ stats.daily_requests <= stats.request_count
    /\ stats.monthly_input_tokens <= stats.total_input_tokens
    /\ stats.monthly_output_tokens <= stats.total_output_tokens
    /\ stats.monthly_cost <= stats.total_cost
    /\ stats.monthly_requests <= stats.total_requests
    /\ stats.monthly_requests <= stats.request_count

\* a commit made after a rollover: the windows hold less than the lifetime
C1_Witness ==
    /\ last.op = "track_usage" /\ last.committed
    /\ 0 < stats.daily_cost /\ stats.daily_cost < stats.total_cost
    /\ 0 < stats.monthly_input_tokens
    /\ stats.monthly_input_tokens < stats.total_input_tokens
    /\ stats.daily_requests < stats.total_requests

\* C2: a commit of (model, input_units, output_units) adds exactly input_units,
\* output_units, the priced cost and one request to each of the lifetime, daily
\* and monthly groups of the ledger as the roll checks left it, and returns that
\* priced cost.
C2_CommitAddsDelta ==
    [][ (last'.op = "track_usage" /\ last'.committed) =>
        LET pre == check_monthly_reset(check_daily_reset(stats, now), now)
            input_units == last'.input_tokens
            output_units == last'.output_tokens
            price == IF last'.model_name \in DOMAIN models
                     THEN input_units * models[last'.model_name].input_token_price
                          + output_units * models[last'.model_name].output_token_price
                     ELSE 0
        IN  /\ last'.cost = price
            /\ stats'.total_input_tokens = stats.total_input_tokens + input_units
            /\ stats'.total_output_tokens = stats.total_output_tokens + output_units
            /\ stats'.total_cost = stats.total_cost + price
            /\ stats'.total_requests = stats.total_requests + 1
            /\ stats'.request_count = stats.request_count + 1
            /\ stats'.daily_input_tokens = pre.daily_input_tokens + input_units
            /\ stats'.daily_output_tokens = pre.daily_output_tokens + output_units
            /\ stats'.daily_cost = pre.daily_cost + price
            /\ stats'.daily_requests = pre.daily_requests + 1
            /\ stats'.monthly_input_tokens = pre.monthly_input_tokens + input_units
            /\ stats'.monthly_output_tokens = pre.monthly_output_tokens + output_units
            /\ stats'.monthly_cost = pre.monthly_cost + price
            /\ stats'.monthly_requests = pre.monthly_requests + 1
            /\ stats'.last_reset_date = pre.last_reset_date
            /\ stats'.last_daily_reset = pre.last_daily_reset
            /\ stats'.last_monthly_reset = pre.last_monthly_reset
      ]_vars

\* a second commit, of one input and one output token, that returned its cost
C2_Witness ==
    /\ last.op = "track_usage" /\ last.committed /\ last.outcome = "return"
    /\ last.input_tokens = 1 /\ last.output_tokens = 1
    /\ last.cost = 3
    /\ stats.total_requests = 2 /\ stats.total_cost > last.cost

\* The four limits: threshold_type, configured limit, window value of ledger s
LimitNames == {"daily_cost", "monthly_cost", "daily_token", "monthly_token"}

LimitOf(th, name) ==
    IF name = "daily_cost" THEN th.daily_cost_limit
    ELSE IF name = "monthly_cost" THEN th.monthly_cost_limit
    ELSE IF name = "daily_token" THEN th.daily_token_limit
    ELSE th.monthly_token_limit

WindowValue(s, name) ==
    IF name = "daily_cost" THEN s.daily_cost
    ELSE IF name = "monthly_cost" THEN s.monthly_cost
    ELSE IF name = "daily_token" THEN s.daily_input_tokens + s.daily_output_tokens
    ELSE s.monthly_input_tokens + s.monthly_output_tokens

\* what the check adds to the window value of a limit
Estimate(l, name) ==
    IF name \in {"daily_cost", "monthly_cost"} THEN l.cost ELSE l.estimated_tokens

HasSignal(w, name, kind) ==
    \E i \in 1..Len(w) : w[i] = Signal(name, kind)

HasEntry(w, name) ==
    \E i \in 1..Len(w) : w[i].type = name \o "_limit"

\* C3: whenever a commit leaves a configured limit's window value at or above
\* the limit, the commit raises ThresholdExceededException with the ledger
\* already holding the commit, and the exception carries a violated
\* metric/window, the post-commit window value and the configured limit.
C3_CommittedThenRejected ==
    (/\ last.op = "track_usage" /\ last.committed
     /\ \E name \in LimitNames :
            /\ LimitOf(thresholds, name) # None
            /\ WindowValue(stats, name) >= LimitOf(thresholds, name)[1])
    => /\ last.outcome = "ThresholdExceededException"
       /\ last.exc.threshold_type \in LimitNames
       /\ LimitOf(thresholds, last.exc.threshold_type) # None
       /\ last.exc.limit_value = LimitOf(thresholds, last.exc.threshold_type)[1]
       /\ last.exc.current_value = WindowValue(stats, last.exc.threshold_type)
       /\ last.exc.current_value >= last.exc.limit_value

\* C4: on every commit entry point (track_usage, track_openai_response, a
\* function wrapped by monitor_openai_call with raise_on_limit=True), a commit
\* that brings a limit to exceeded is observed by the caller as a raised
\* ThresholdExceededException, never as a normal return.
C4_ExceededAbortsCaller ==
    (/\ Committed(last)
     /\ \E name \in LimitNames : HasSignal(last.warnings, name, "exceeded"))
    => last.outcome = "ThresholdExceededException"

\* C5: the admission check never mutates the ledger: all counters and all
\* reset timestamps, in memory and as stored, are the same before and after the
\* call, whether the result is allowed or denied.
C5_CheckNeverMutates ==
    [][ last'.op = "check_limits_before_request" =>
            stats' = stats /\ stats_file' = stats_file ]_vars

\* a denied check made on a later day than the commits it counts
C5_Witness ==
    /\ last.op = "check_limits_before_request" /\ ~last.allowed
    /\ stats.daily_requests > 0
    /\ DateAfter(now, stats.last_daily_reset)

\* C6: the admission check returns allowed=false whenever, for some limit
\* (here: some limit greater than 0), current window value + estimate is
\* greater than or equal to that limit, and allowed=true otherwise.
C6_AdmissionDeniesAtLimit ==
    last.op = "check_limits_before_request" =>
        (last.allowed = FALSE <=>
            \E name \in LimitNames :
                /\ LimitOf(thresholds, name) # None
                /\ LimitOf(thresholds, name)[1] > 0
                /\ WindowValue(stats, name) + Estimate(last, name)
                       >= LimitOf(thresholds, name)[1])

\* C7: the admission check returns every triggered projected signal
\* regardless of the decision: for each limit (here: each limit greater than 0)
\* whose projected value is at least limit * warning_ratio but below the limit,
\* the result holds a signal for that metric/window.
C7_AdmissionReturnsWarnings ==
    last.op = "check_limits_before_request" =>
        \A name \in LimitNames :
            (/\ LimitOf(thresholds, name) # None
             /\ LimitOf(thresholds, name)[1] > 0
             /\ (WindowValue(stats, name) + Estimate(last, name)) * WarnDen
                    >= LimitOf(thresholds, name)[1] * WarnNum
             /\ WindowValue(stats, name) + Estimate(last, name)
                    < LimitOf(thresholds, name)[1])
            => HasEntry(last.warnings, name)

\* C8: ThresholdExceededException is raised only by the commit path: the
\* admission check never raises, and reports a violated limit as
\* allowed=false in the result it returns.
C8_OnlyCommitRaises ==
    /\ last.outcome = "ThresholdExceededException"
           => last.op = "track_usage" /\ last.committed
    /\ last.op = "check_limits_before_request"
           => /\ last.outcome = "return"
              /\ last.allowed = (last.warnings = << >>)
              /\ \A name \in LimitNames :
                    (/\ Truthy(LimitOf(thresholds, name))
                     /\ WindowValue(stats, name) + Estimate(last, name)
                            > LimitOf(thresholds, name)[1])
                    => ~last.allowed /\ HasEntry(last.warnings, name)

\* a check on a ledger that a limit already rejects: denied, nothing raised
C8_Witness ==
    /\ last.op = "check_limits_before_request"
    /\ last.outcome = "return" /\ ~last.allowed
    /\ \E name \in LimitNames :
            HasSignal(check_thresholds(stats, thresholds), name, "exceeded")

\* C9: a commit or check called with a negative input_units or output_units
\* fails with an InvalidUsageError and leaves every ledger counter unchanged;
\* no reachable ledger has a negative token, cost or request counter.
C9_NegativeUnitsRejected ==
    /\ (/\ last.op \in {"track_usage", "check_limits_before_request"}
        /\ (last.input_tokens < 0 \/ last.output_tokens < 0
            \/ last.estimated_tokens < 0))
       => last.outcome = "InvalidUsageError" /\ ~last.committed
    /\ \A f \in {"total_input_tokens", "total_output_tokens", "total_cost",
                 "daily_input_tokens", "daily_output_tokens", "daily_cost",
                 "monthly_input_tokens", "monthly_output_tokens", "monthly_cost",
                 "request_count", "total_requests", "daily_requests",
                 "monthly_requests"} : stats[f] >= 0

\* C10: for each of the four limits, threshold evaluation emits no signal if
\* the limit is None; for any other limit value exactly one signal:
\* 'exceeded' if current >= limit, 'warning' if
\* limit * warning_ratio <= current < limit, and none below that.
C10_EvaluationRule ==
    last.op = "check_thresholds" =>
        \A name \in LimitNames :
            LET limit == LimitOf(thresholds, name)
                current == WindowValue(stats, name)
                signals == SelectSeq(last.warnings, LAMBDA w : w.limit = name)
            IN  IF limit = None THEN signals = << >>
                ELSE IF current >= limit[1]
                     THEN signals = <<Signal(name, "exceeded")>>
                ELSE IF current * WarnDen >= limit[1] * WarnNum
                     THEN signals = <<Signal(name, "warning")>>
                ELSE signals = << >>

\* The order of the four limits: cost before tokens, daily before monthly
SignalOrder == <<"daily_cost", "monthly_cost", "daily_token", "monthly_token">>

Rank(name) == CHOOSE i \in 1..Len(SignalOrder) : SignalOrder[i] = name

CallsOf(l, name) == SelectSeq(l.calls, LAMBDA c : c.callback = name)

\* C11: the signals of an evaluation come in the order daily cost, monthly
\* cost, daily tokens, monthly tokens, and the violation that a commit reports
\* to on_threshold_exceeded and raises is the first exceeded signal in that
\* order.
C11_PrimaryIsFirstInOrder ==
    (last.op = "track_usage" /\ last.committed) =>
        /\ \A i, j \in 1..Len(last.warnings) :
                i < j => Rank(last.warnings[i].limit) < Rank(last.warnings[j].limit)
        /\ \A name \in LimitNames :
                (/\ HasSignal(last.warnings, name, "exceeded")
                 /\ \A other \in LimitNames :
                        HasSignal(last.warnings, other, "exceeded")
                            => Rank(name) <= Rank(other))
                => /\ last.outcome = "ThresholdExceededException"
                   /\ last.exc.threshold_type = name
                   /\ \A i \in 1..Len(last.calls) :
                        last.calls[i].callback = "on_threshold_exceeded"
                            => last.calls[i].signal = Signal(name, "exceeded")

\* C12: after every commit that updated the ledger a registered
\* on_usage_update is invoked exactly once, with the post-commit snapshot, also
\* when the commit ends by raising ThresholdExceededException.
C12_OnCommitAlwaysInvoked ==
    (last.op = "track_usage" /\ last.committed /\ callbacks.on_usage_update # "None")
    => /\ Len(CallsOf(last, "on_usage_update")) = 1
       /\ CallsOf(last, "on_usage_update")[1].usage_info =
            [cost |-> last.cost, total_cost |-> stats.total_cost,
             daily_cost |-> stats.daily_cost, monthly_cost |-> stats.monthly_cost]

\* C13: after a commit a registered on_threshold_warning is invoked once, with
\* the first warning signal, whenever the evaluation holds a warning signal
\* (also when another metric/window is exceeded in the same evaluation), and
\* is not invoked when the evaluation holds no warning signal.
C13_OnWarningInvoked ==
    (last.op = "track_usage" /\ last.committed
     /\ callbacks.on_threshold_warning # "None")
    => LET warning_signals == SelectSeq(last.warnings, IsWarning) IN
       IF warning_signals # << >>
       THEN /\ Len(CallsOf(last, "on_threshold_warning")) = 1
            /\ CallsOf(last, "on_threshold_warning")[1].signal = warning_signals[1]
       ELSE CallsOf(last, "on_threshold_warning") = << >>

\* C14: an exception raised by a registered callback never reaches the caller:
\* a commit during which a callback raised still ends with
\* ThresholdExceededException for the first exceeded signal if there is one,
\* leaves the ledger exactly as the roll checks and the increment set it, and a
\* later track_usage of a configured model is committed all the same.
C14_CallbackErrorsContained ==
    [][ /\ (/\ last'.op = "track_usage" /\ last'.committed
            /\ \E i \in 1..Len(last'.calls) : last'.calls[i].raised)
           => /\ last'.outcome # "CallbackError"
              /\ SelectSeq(last'.warnings, IsExceeded) # << >>
                    => /\ last'.outcome = "ThresholdExceededException"
                       /\ last'.exc.threshold_type =
                            SelectSeq(last'.warnings, IsExceeded)[1].limit
              /\ stats' = update_usage(
                              check_monthly_reset(check_daily_reset(stats, now), now),
                              models, last'.model_name, last'.input_tokens,
                              last'.output_tokens)
        /\ (/\ \E i \in 1..Len(last.calls) : last.calls[i].raised
            /\ last'.op = "track_usage" /\ last'.model_name \in DOMAIN models)
           => /\ last'.committed
              /\ stats'.total_requests = stats.total_requests + 1
      ]_vars

\* a commit ends with ThresholdExceededException although on_threshold_exceeded
\* raised; the commit before it returned although on_usage_update raised
C14_Witness ==
    /\ last.op = "track_usage" /\ last.committed
    /\ last.outcome = "ThresholdExceededException"
    /\ CallsOf(last, "on_threshold_exceeded") # << >>
    /\ CallsOf(last, "on_threshold_exceeded")[1].raised
    /\ callbacks.on_usage_update = "raises"
    /\ stats.total_requests = 2
    /\ stats_file.total_requests = 1

DailyCounters ==
    {"daily_input_tokens", "daily_output_tokens", "daily_cost", "daily_requests"}

MonthlyCounters ==
    {"monthly_input_tokens", "monthly_output_tokens", "monthly_cost",
     "monthly_requests"}

LifetimeCounters ==
    {"total_input_tokens", "total_output_tokens", "total_cost", "request_count",
     "total_requests"}

\* ledger b is ledger a with the counters in `zeroed` set to 0, the timestamps
\* in `stamped` set to t, and every other field as it was
ResetOf(a, b, zeroed, stamped, t) ==
    /\ \A f \in zeroed : b[f] = 0
    /\ \A f \in stamped : b[f] = t
    /\ \A f \in (DOMAIN a) \ (zeroed \cup stamped) : b[f] = a[f]

\* C15: the daily roll check zeroes the four daily counters and sets
\* last_daily_reset to now if and only if now's calendar date is strictly after
\* last_daily_reset's calendar date; otherwise it changes nothing; lifetime and
\* monthly counters and last_monthly_reset are unchanged in both cases.
C15_DailyRoll ==
    [][ last'.op = "check_daily_reset" =>
        LET l == stats.last_daily_reset
            after == \/ now.year > l.year
                     \/ now.year = l.year /\ now.month > l.month
                     \/ now.year = l.year /\ now.month = l.month /\ now.day > l.day
        IN  IF after
            THEN ResetOf(stats, stats', DailyCounters, {"last_daily_reset"}, now)
            ELSE stats' = stats
      ]_vars

\* a daily roll that reset the day's counters and kept the month's
C15_Witness ==
    /\ last.op = "check_daily_reset"
    /\ stats.daily_requests = 0 /\ stats.daily_input_tokens = 0
    /\ stats.last_daily_reset = now
    /\ stats.monthly_requests = 2 /\ stats.monthly_cost > 0
    /\ stats.last_monthly_reset # now

\* C16: the monthly roll check zeroes the four monthly counters and sets
\* last_monthly_reset to now if and only if now's (year, month) is strictly
\* after last_monthly_reset's (year, month) in lexicographic order, for every
\* combination of the two timestamps; otherwise it changes nothing.
C16_MonthlyRoll ==
    [][ last'.op = "check_monthly_reset" =>
        LET l == stats.last_monthly_reset
            after == \/ now.year > l.year
                     \/ now.year = l.year /\ now.month > l.month
        IN  IF after
            THEN ResetOf(stats, stats', MonthlyCounters, {"last_monthly_reset"}, now)
            ELSE stats' = stats
      ]_vars

\* C17: running the daily (monthly) roll check a second time at the same now
\* leaves the ledger exactly as the first run left it.
C17_RollIdempotent ==
    [][ (/\ last'.op \in {"check_daily_reset", "check_monthly_reset"}
         /\ last'.result = "again")
        => stats' = stats ]_vars

\* a second daily roll check after a first one that reset the day's counters
C17_Witness ==
    /\ last.op = "check_daily_reset" /\ last.result = "again"
    /\ stats.daily_requests = 0
    /\ stats.last_daily_reset = now
    /\ stats.monthly_requests = 2
    /\ stats.last_monthly_reset # now

\* C18: a commit runs both roll checks before the increment: when the previous
\* daily reset was on day D and the commit happens on day D+1 of the same
\* month, the daily counters afterwards hold exactly this commit's values and
\* the lifetime and monthly counters hold their prior values plus this
\* commit's values.
C18_DeltaLandsInCurrentWindow ==
    [][ (/\ last'.op = "track_usage" /\ last'.committed
         /\ now.year = stats.last_daily_reset.year
         /\ now.month = stats.last_daily_reset.month
         /\ now.day = stats.last_daily_reset.day + 1
         /\ now.year = stats.last_monthly_reset.year
         /\ now.month = stats.last_monthly_reset.month)
        => /\ stats'.daily_input_tokens = last'.input_tokens
           /\ stats'.daily_output_tokens = last'.output_tokens
           /\ stats'.daily_cost = last'.cost
           /\ stats'.daily_requests = 1
           /\ stats'.total_input_tokens = stats.total_input_tokens + last'.input_tokens
           /\ stats'.total_output_tokens = stats.total_output_tokens + last'.output_tokens
           /\ stats'.total_cost = stats.total_cost + last'.cost
           /\ stats'.total_requests = stats.total_requests + 1
           /\ stats'.monthly_input_tokens = stats.monthly_input_tokens + last'.input_tokens
           /\ stats'.monthly_output_tokens
                = stats.monthly_output_tokens + last'.output_tokens
           /\ stats'.monthly_cost = stats.monthly_cost + last'.cost
           /\ stats'.monthly_requests = stats.monthly_requests + 1
      ]_vars

\* the second commit of the month, made the day after the first
C18_Witness ==
    /\ last.op = "track_usage" /\ last.committed
    /\ now = Calendar[2] /\ stats.last_daily_reset = Calendar[2]
    /\ stats.last_monthly_reset = Calendar[1]
    /\ last.input_tokens = 1
    /\ stats.daily_input_tokens = 1 /\ stats.daily_requests = 1
    /\ stats.monthly_input_tokens = 2 /\ stats.monthly_requests = 2
    /\ stats.total_input_tokens = 2 /\ stats.total_requests = 2

\* C19: reset_usage_stats(scope) zeroes exactly the counters of its scope and
\* stamps exactly the matching timestamps with now ('daily': the four daily
\* counters and last_daily_reset; 'monthly': the four monthly counters and
\* last_monthly_reset; 'all': every counter and the three timestamps), every
\* other field keeps its value, and the monitor's own ledger and the stored
\* one show the result.
C19_ResetScope ==
    [][ last'.op = "reset_usage_stats" =>
        /\ last'.reset_type = "daily" =>
                ResetOf(stats, stats', DailyCounters, {"last_daily_reset"}, now)
        /\ last'.reset_type = "monthly" =>
                ResetOf(stats, stats', MonthlyCounters, {"last_monthly_reset"}, now)
        /\ last'.reset_type = "all" =>
                ResetOf(stats, stats',
                        LifetimeCounters \cup DailyCounters \cup MonthlyCounters,
                        {"last_reset_date", "last_daily_reset", "last_monthly_reset"},
                        now)
        /\ stats_file' = stats'
      ]_vars

\* a monthly reset on a later day than the commits: the month's counters are
\* zero, the day's and the lifetime's are not
C19_Witness ==
    /\ last.op = "reset_usage_stats" /\ last.reset_type = "monthly"
    /\ stats.monthly_requests = 0 /\ stats.monthly_cost = 0
    /\ stats.last_monthly_reset = now
    /\ stats.last_daily_reset # now
    /\ stats.daily_requests > 0 /\ stats.total_requests > 0

\* one whole commit of thread th on ledger s: roll checks, then the increment
SerialCommit(s, th) ==
    update_usage(check_monthly_reset(check_daily_reset(s, now), now), models,
                 th.model_name, th.input_tokens, th.output_tokens)

\* C20: when the concurrent track_usage calls on one monitor have all
\* finished, the ledger is the one that some serial order of the same calls
\* produces: no increment is lost, and none lands in a window that a roll has
\* or should have reset.
C20_CommitsSerializable ==
    (/\ DOMAIN threads = ThreadIds
     /\ \A t \in ThreadIds : threads[t].pc = "done")
    => \E a \in ThreadIds : \E b \in ThreadIds \ {a} :
            stats = SerialCommit(SerialCommit(InitialLedger, threads[a]), threads[b])

\* C21: admission is advisory: a check that answered allowed=true reserves
\* nothing, so the commit that follows it is evaluated on the ledger alone: it
\* adds its own units to the ledger the check left, and it raises
\* ThresholdExceededException exactly when that leaves a limit's window at or
\* over the limit; such an execution (allowed check, then a raising commit) is
\* reachable.
C21_AdmissionIsAdvisory ==
    [][ (/\ last.op = "check_limits_before_request" /\ last.allowed
         /\ last'.op = "track_usage" /\ last'.committed)
        => /\ last'.after_check = "allowed"
           /\ stats' = SerialCommit(stats, last')
           /\ last'.outcome = "ThresholdExceededException"
                <=> \E name \in LimitNames :
                        /\ Truthy(LimitOf(thresholds, name))
                        /\ WindowValue(stats', name) >= LimitOf(thresholds, name)[1]
      ]_vars

\* a check answered allowed=true and the commit right after it raised
C21_Witness ==
    /\ last.op = "track_usage" /\ last.committed
    /\ last.after_check = "allowed"
    /\ last.outcome = "ThresholdExceededException"
    /\ last.input_tokens + last.output_tokens > 1


\* C22: the price of a call is (input/1000)*input_price + (output/1000)*
\* output_price for a model of the catalog and 0 for any other model; it is
\* additive, price(a1+a2, b1+b2) = price(a1,b1) + price(a2,b2), and it does
\* not decrease when either count grows.
C22_PriceIsLinear ==
    last.op = "estimate_cost" =>
        LET price(a, b) == estimate_cost(models, last.model_name, a, b)
        IN  /\ last.model_name \notin DOMAIN models => last.cost = FloatZero
            /\ last.model_name \in DOMAIN models =>
                  last.cost = FloatAdd(
                      FloatMul(FloatOfRatio(last.input_tokens, 1000),
                               models[last.model_name].input_token_price),
                      FloatMul(FloatOfRatio(last.output_tokens, 1000),
                               models[last.model_name].output_token_price))
            /\ FloatLeq(last.cost, price(last.input_tokens + 1, last.output_tokens))
            /\ FloatLeq(last.cost, price(last.input_tokens, last.output_tokens + 1))
            /\ \A a1 \in 0..last.input_tokens, b1 \in 0..last.output_tokens :
                  last.cost = FloatAdd(price(a1, b1),
                                       price(last.input_tokens - a1, last.output_tokens - b1))

\* C23: a commit for a model that the catalog does not list raises
\* ModelNotConfiguredException before any roll or increment, so the ledger and
\* the stats file stay as they were, when the catalog lists at least one
\* model; under an empty catalog it is committed, tokens and one request, at
\* cost zero.  No other commit raises that exception.
C23_UnknownModelPolicy ==
    [][ last'.op = "track_usage" =>
          /\ last'.outcome = "ModelNotConfiguredException"
                <=> (last'.model_name \notin DOMAIN models /\ DOMAIN models # {})
          /\ last'.outcome = "ModelNotConfiguredException"
                => /\ stats' = stats
                   /\ stats_file' = stats_file
                   /\ ~last'.committed
          /\ (last'.model_name \notin DOMAIN models /\ DOMAIN models = {})
                => /\ last'.committed
                   /\ last'.cost = 0
                   /\ stats' = SerialCommit(stats, last')
                   /\ stats'.total_cost = stats.total_cost
                   /\ stats'.total_requests = stats.total_requests + 1
                   /\ stats'.total_input_tokens
                        = stats.total_input_tokens + last'.input_tokens
                   /\ stats'.total_output_tokens
                        = stats.total_output_tokens + last'.output_tokens
      ]_vars

\* the unknown-model error came while a daily roll was due, and the roll did
\* not happen
C23_Witness ==
    /\ last.op = "track_usage"
    /\ last.outcome = "ModelNotConfiguredException"
    /\ DOMAIN models # {}
    /\ stats.total_requests > 0
    /\ check_daily_reset(stats, now) # stats

\* C24: with auto_save on, when track_usage ends by raising
\* ThresholdExceededException the stats file already holds the in-memory
\* ledger with that commit in it, as it does after a commit that returns.
C24_CountedBeforeRaise ==
    (/\ last.op = "track_usage"
     /\ last.committed
     /\ auto_save
     /\ last.outcome \in {"return", "ThresholdExceededException"})
    => stats_file = stats

\* C25: a call through monitor_openai_call with pre_check runs the check
\* before the wrapped function: when the check denies and raise_on_limit is
\* set the call ends in BillingException, the function is not invoked and the
\* ledger and the stats file are unchanged; when the check denies and
\* raise_on_limit is not set the function is invoked all the same.
\* BillingException comes from a denied check only.
C25_PreCheckBlocksCall ==
    [][ (last'.op = "monitored_call" /\ enabled) =>
          LET check == check_limits_before_request(last'.model_name,
                                                   last'.estimated_tokens)
              denied == last'.pre_check /\ ~check.allowed
          IN  /\ (denied /\ last'.raise_on_limit)
                    => /\ last'.outcome = "BillingException"
                       /\ ~last'.func_called
                       /\ stats' = stats
                       /\ stats_file' = stats_file
              /\ (denied /\ ~last'.raise_on_limit)
                    => /\ last'.func_called
                       /\ last'.outcome = "return"
              /\ last'.outcome = "BillingException"
                    => (denied /\ last'.raise_on_limit)
      ]_vars

C25_Witness ==
    /\ last.op = "monitored_call"
    /\ last.pre_check /\ last.raise_on_limit
    /\ last.outcome = "BillingException"
    /\ ~last.func_called
    /\ stats.total_requests > 0

\* C26: refresh_config reloads from file: when it returns, the monitor's
\* ledger equals the stored usage stats, whoever wrote them, and the stored
\* stats are as they were.
C26_RefreshReloads ==
    [][ last'.op = "refresh_config"
          => (stats' = stats_file /\ stats_file' = stats_file) ]_vars

\* C27: through the decorator with pre_check and raise_on_limit, once the
\* daily counters are at or over the daily limit and the calendar day has
\* changed, a call is eventually admitted and executed: the expired daily
\* window does not keep the caller out.
C27_DailyViolationExpires ==
    (/\ \E name \in {"daily_cost", "daily_token"} :
            /\ Truthy(LimitOf(thresholds, name))
            /\ WindowValue(stats, name) >= LimitOf(thresholds, name)[1]
     /\ check_daily_reset(stats, now) # stats)
    ~> (last.op = "monitored_call" /\ last.func_called)

\* C28: from a fresh ledger, with a clock that only advances and no manual
\* reset, after every commit each daily counter is at most the monthly
\* counter of the same quantity, also when the clock advances between the
\* daily and the monthly roll check of the commit.
C28_DailyWithinMonthly ==
    (last.op = "track_usage" /\ last.committed) =>
        /\ stats.daily_input_tokens <= stats.monthly_input_tokens
        /\ stats.daily_output_tokens <= stats.monthly_output_tokens
        /\ stats.daily_cost <= stats.monthly_cost
        /\ stats.daily_requests <= stats.monthly_requests

\* what a commit adds to the window value of a limit
Units(l, name) ==
    IF name \in {"daily_cost", "monthly_cost"} THEN l.cost
    ELSE l.input_tokens + l.output_tokens

\* the roll checks of a commit made now leave the window of the limit alone
SameWindow(s, name) ==
    IF name \in {"daily_cost", "daily_token"}
    THEN check_daily_reset(s, now) = s
    ELSE check_monthly_reset(s, now) = s

\* C29: exceeded is sticky within a window.  While the window value of a limit
\* that raised is at or over the limit (no roll of that window, no reset), a
\* commit with non-negative units raises ThresholdExceededException again, and
\* it is counted all the same: the ledger takes the whole commit, one request
\* and the cost in the lifetime counters and the units in the window of the
\* limit.
C29_ExceededIsSticky ==
    [][ (/\ last'.op = "track_usage" /\ last'.committed
         /\ \E name \in LimitNames :
                /\ Truthy(LimitOf(thresholds, name))
                /\ WindowValue(stats, name) >= LimitOf(thresholds, name)[1]
                /\ SameWindow(stats, name))
        => /\ last'.outcome = "ThresholdExceededException"
           /\ stats' = SerialCommit(stats, last')
           /\ stats'.total_requests = stats.total_requests + 1
           /\ stats'.total_cost = stats.total_cost + last'.cost
           /\ stats'.total_input_tokens = stats.total_input_tokens + last'.input_tokens
           /\ stats'.total_output_tokens
                = stats.total_output_tokens + last'.output_tokens
           /\ \A name \in LimitNames :
                SameWindow(stats, name)
                    => WindowValue(stats', name)
                         = WindowValue(stats, name) + Units(last', name)
      ]_vars

\* a commit raised on a ledger whose daily token window was over the limit
\* before it, and was counted
C29_Witness ==
    /\ last.op = "track_usage" /\ last.committed
    /\ last.outcome = "ThresholdExceededException"
    /\ Truthy(thresholds.daily_token_limit)
    /\ WindowValue(stats, "daily_token") - Units(last, "daily_token")
         >= thresholds.daily_token_limit[1]
    /\ Units(last, "daily_token") > 0
    /\ stats.total_requests > MaxRequests

\* C30: while config.enabled is false the monitor is inert: track_usage
\* returns {"enabled": False} with the ledger and the stats file untouched (no
\* roll, no increment), no callback invoked and nothing raised;
\* check_limits_before_request answers allowed; a wrapped function is called
\* straight through and nothing is tracked.  The with blocks
\* temporary_monitoring and disable_monitoring remember config.enabled on
\* entry and put that value back on exit, normal or by exception.
C30_DisabledIsInert ==
    [][ /\ (~enabled /\ last'.op \in {"track_usage", "check_limits_before_request",
                                       "monitored_call"})
            => /\ stats' = stats
               /\ stats_file' = stats_file
               /\ last'.outcome = "return"
               /\ last'.calls = << >>
               /\ ~last'.committed
               /\ last'.op = "track_usage" => last'.result = "disabled"
               /\ last'.op = "check_limits_before_request" => last'.allowed
               /\ last'.op = "monitored_call"
                    => (last'.func_called /\ last'.result = "func_result")
        /\ last'.op = "enter"
            => /\ contexts'[Len(contexts')].original_enabled = Some(enabled)
               /\ enabled' = (last'.result = "temporary_monitoring")
        /\ last'.op = "exit"
            => /\ enabled' = contexts[Len(contexts)].original_enabled[1]
               /\ contexts' = SubSeq(contexts, 1, Len(contexts) - 1)
      ]_vars

\* a commit was asked for while monitoring was switched off inside a
\* disable_monitoring block, with a daily roll due, and nothing happened
C30_Witness ==
    /\ last.op = "track_usage"
    /\ last.result = "disabled"
    /\ ~enabled
    /\ contexts # << >>
    /\ contexts[Len(contexts)].kind = "disable_monitoring"
    /\ contexts[Len(contexts)].original_enabled = Some(TRUE)
    /\ stats.total_requests > 0
    /\ check_daily_reset(stats, now) # stats
====
